---- MODULE Spec2Model ----
(***************************************************************************)
(* Model of the NREL ingestion run of data_ingestion/get_nrel_api.py:      *)
(* create_table, the partition of the zip codes into chunks, and for each  *)
(* chunk api_to_df followed by insert_data_to_postgres.                    *)
(*                                                                         *)
(* The PostgreSQL table is a record [exists, rows]; a psycopg2 connection  *)
(* is a transaction holding its own view of the table (txn), which becomes *)
(* the table on commit and is thrown away by close().  An exception that   *)
(* no handler of fetch_and_insert_data catches ends the run in "Crashed".  *)
(***************************************************************************)
EXTENDS Integers, Sequences, FiniteSets, TLC

VARIABLES
    pc,               \* position in fetch_and_insert_data
    all_zip_codes,    \* the enumerated keys
    chunk_size,       \* the chunk size of the partition
    zip_code_chunks,  \* the partition of all_zip_codes
    batch_id,         \* loop variable of the batch loop
    json_data,        \* the array the source returned for the current batch
    data_df,          \* the frame api_to_df returned for the current batch
    row,              \* rows of data_df consumed by the insert loop (0: `row` unbound)
    table,            \* committed state of staging.nrel_api_raw
    txn,              \* the open connection's view of the table
    conns,            \* number of open database connections
    schema,           \* outcome of create_table: "pending", "ready", "failed"
    outcome,          \* per batch begun, how it ended and after how many inserted rows
    response,         \* what the last request came back with, in short
    requests,         \* the batch ids whose chunk was sent to the source, in order
    expected          \* rows owed to the table by the batches finished so far

vars == <<pc, all_zip_codes, chunk_size, zip_code_chunks, batch_id, json_data,
          data_df, row, table, txn, conns, schema, outcome, response, requests,
          expected>>

------------------------------------------------------------------------------
(* Bounds of the model *)

MaxKeys == 120      \* longest enumeration of a run
MaxRecs == 2        \* longest array the source returns for one request
MaxSourceId == 2    \* source `id` values are 1..MaxSourceId
MaxLen == 5         \* longest key sequence handed to the batcher alone
MaxChunk == 3       \* largest chunk size handed to the batcher alone

(* Program constants *)

CHUNK_SIZE == 50

------------------------------------------------------------------------------
(* Helpers *)

Min(a, b) == IF a < b THEN a ELSE b

Range(s) == {s[i] : i \in 1..Len(s)}

SeqsUpTo(S, n) == UNION {[1..k -> S] : k \in 0..n}

\* Python's s[a:b] for 0 <= a: the slice is clamped to the end of s.
Slice(s, a, b) == SubSeq(s, a + 1, Min(b, Len(s)))

\* [keys[i : i + C] for i in range(i0, len(keys), C)]
RECURSIVE ChunksFrom(_, _, _)
ChunksFrom(keys, i, C) ==
    IF i >= Len(keys) THEN <<>>
    ELSE <<Slice(keys, i, i + C)>> \o ChunksFrom(keys, i + C, C)

\* The partition with range(0, len(keys) - C + 1, C): the short last chunk is lost.
ZipCodeChunksNoTail(keys, C) ==
    ChunksFrom(SubSeq(keys, 1, (Len(keys) \div C) * C), 0, C)

ZipCodeChunks(keys, C) == ChunksFrom(keys, 0, C)

RECURSIVE Concat(_)
Concat(ss) == IF ss = <<>> THEN <<>> ELSE Head(ss) \o Concat(Tail(ss))

------------------------------------------------------------------------------
(* The source API and api_to_df *)

Absent == "absent"    \* the record has no such key
NaN == "NaN"          \* pandas' filler for a key some record of the frame lacks

SourceIds == 1..MaxSourceId

\* The zip the station with source id i lies in, among those of the request.
ZipOf(zips, i) == zips[((i - 1) % Len(zips)) + 1]

\* The records the API can return for a request with &zip=<zips>.
RawRecords(zips) ==
    {[id |-> i, latitude |-> l, zip |-> ZipOf(zips, i)] :
        i \in SourceIds, l \in {Absent, "v"}}

\* An element of the endpoint array that is no JSON object (a number, a string).
NonMapping == [id |-> 0, latitude |-> Absent, zip |-> 0]

\* What requests.get(url, timeout=REQUEST_TIMEOUT) can come back with.
Bodies(zips) ==
    {[kind |-> k, recs |-> <<>>] : k \in {"timeout", "not_json", "no_endpoint"}}
    \cup {[kind |-> "array", recs |-> s] :
             s \in SeqsUpTo(RawRecords(zips) \cup {NonMapping}, MaxRecs)}

\* The response in short: its kind, the length of its array, and how many of
\* the array's elements are no objects, or objects without a latitude.
Summary(body) ==
    [kind |-> body.kind,
     n |-> Len(body.recs),
     bad |-> Cardinality({i \in 1..Len(body.recs) : body.recs[i] = NonMapping}),
     lacking |-> Cardinality({i \in 1..Len(body.recs) :
                    body.recs[i] # NonMapping /\ body.recs[i].latitude = Absent})]

NoResponse == [kind |-> "none", n |-> 0, bad |-> 0, lacking |-> 0]

EmptyFrame == [columns |-> {}, rows |-> <<>>]

\* pd.DataFrame(records): one column per key that occurs in some record, NaN
\* where a record lacks the key.
DataFrame(recs) ==
    IF recs = <<>> THEN EmptyFrame
    ELSE [columns |-> {"id", "zip"} \cup
                      (IF \E i \in 1..Len(recs) : recs[i].latitude # Absent
                       THEN {"latitude"} ELSE {}),
          rows |-> [i \in 1..Len(recs) |->
                      [id |-> recs[i].id, zip |-> recs[i].zip,
                       latitude |-> IF recs[i].latitude = Absent THEN NaN
                                    ELSE recs[i].latitude]]]

\* A test that takes every frame for non-empty (`if data_df is not None`).
NeverEmpty(df) == FALSE

Empty(df) == df.rows = <<>> \/ df.columns = {}

\* The columns of export_columns the model keeps.
ExportColumns == {"id", "latitude", "zip", "batch_id"}

\* The stamp with ids counted from 1.
StampOneBased(df, b) ==
    [columns |-> df.columns \cup {"batch_id"},
     rows |-> [i \in 1..Len(df.rows) |->
                 [id |-> df.rows[i].id, zip |-> df.rows[i].zip,
                  latitude |-> df.rows[i].latitude, batch_id |-> b + 1]]]

\* data_df["batch_id"] = batch_id
Stamp(df, b) ==
    [columns |-> df.columns \cup {"batch_id"},
     rows |-> [i \in 1..Len(df.rows) |->
                 [id |-> df.rows[i].id, zip |-> df.rows[i].zip,
                  latitude |-> df.rows[i].latitude, batch_id |-> b]]]

Raised(what) == [raised |-> TRUE, what |-> what, df |-> EmptyFrame]
Returned(df) == [raised |-> FALSE, what |-> "", df |-> df]

\* api_to_df(zip_codes, api_key, endpoint, batch_id) on the response `body`.
ApiToDf(body, b) ==
    IF body.kind = "timeout" THEN Raised("fetch_error")          \* requests.get
    ELSE IF body.kind = "not_json" THEN Raised("fetch_error")    \* response.json()
    ELSE IF body.kind = "no_endpoint" THEN Raised("fetch_error") \* json_data[endpoint]
    ELSE IF \E i \in 1..Len(body.recs) : body.recs[i] = NonMapping
         THEN Raised("record_error")    \* pd.DataFrame, or KeyError at line 75
    ELSE LET df == DataFrame(body.recs) IN
         IF ~Empty(df)
         THEN LET stamped == Stamp(df, b) IN
              IF ExportColumns \subseteq stamped.columns
              THEN Returned([columns |-> ExportColumns, rows |-> stamped.rows])
              ELSE Raised("project_error")                       \* KeyError
         ELSE Returned(EmptyFrame)

------------------------------------------------------------------------------
(* The destination table *)

NoTable == [exists |-> FALSE, rows |-> {}]
FreshTable == [exists |-> TRUE, rows |-> {}]
NoTxn == [open |-> FALSE, view |-> NoTable]

\* A row left by an earlier run.
OldRow == [id |-> 1, latitude |-> "v", zip |-> 0, batch_id |-> 0, prior |-> TRUE]

\* The states the table can be in when the run starts.
InitialTables == {NoTable, FreshTable, [exists |-> TRUE, rows |-> {OldRow}]}

\* The row INSERT INTO ... (columns) VALUES (...) writes for a frame row: the
\* frame's id column is among the columns, so it sets the table's id.
TableRow(r) ==
    [id |-> r.id, latitude |-> r.latitude, zip |-> r.zip, batch_id |-> r.batch_id,
     prior |-> FALSE]

\* Whether the table accepts the row: it exists and the primary key is free.
Accepts(view, r) ==
    view.exists /\ \A t \in view.rows : t.id # TableRow(r).id

Inserted(view, r) == [view EXCEPT !.rows = @ \cup {TableRow(r)}]

\* The handler of line 163 prints `row`: unbound before the loop's first pass.
HandlerRaises(rowsDone) == rowsDone = 0

\* A finally block that leaves the connection open.
Leaked(n) == n

\* finally: if conn: conn.close(), on the number of open connections.
Released(n) == n - 1

\* A close() that commits what the connection wrote (an autocommit connection).
ClosedCommits(tab, view) == view

\* conn.close() on a transaction that was not committed: the table keeps its
\* committed state, what the connection wrote is rolled back.
Closed(tab, view) == tab

\* conn.commit(): the connection's view becomes the table.
Committed(tab, view) == view

------------------------------------------------------------------------------
(* fetch_and_insert_data *)

Keys(n) == [i \in 1..n |-> i]

KeyCounts == {0, 1, CHUNK_SIZE + 1, 2 * CHUNK_SIZE, MaxKeys}

Init ==
    /\ pc = "create_table"
    /\ all_zip_codes \in {Keys(n) : n \in KeyCounts}
    /\ chunk_size = CHUNK_SIZE
    /\ zip_code_chunks = <<>>
    /\ batch_id = 0
    /\ json_data = <<>>
    /\ data_df = EmptyFrame
    /\ row = 0
    /\ table \in InitialTables
    /\ txn = NoTxn
    /\ conns = 0
    /\ schema = "pending"
    /\ outcome = <<>>
    /\ response = NoResponse
    /\ requests = <<>>
    /\ expected = {}

\* What the batch owes the table: its records, each with the batch's id.
Owed(recs, b) ==
    {[id |-> recs[i].id, zip |-> recs[i].zip, batch_id |-> b] : i \in 1..Len(recs)}

\* A loop that takes a batch again unless it was loaded or empty.
NextBatchRetry(what) ==
    /\ outcome' = Append(outcome, [what |-> what, at |-> row])
    /\ batch_id' = IF what \in {"loaded", "empty"} THEN batch_id + 1 ELSE batch_id
    /\ json_data' = <<>>
    /\ data_df' = EmptyFrame
    /\ row' = 0
    /\ pc' = "loop"

\* The end of one pass of the batch loop, the batch having ended as `what`.
NextBatch(what) ==
    /\ outcome' = Append(outcome, [what |-> what, at |-> row])
    /\ batch_id' = batch_id + 1
    /\ json_data' = <<>>
    /\ data_df' = EmptyFrame
    /\ row' = 0
    /\ pc' = "loop"

\* An exception leaves fetch_and_insert_data, the batch having ended as `what`.
Crash(what) ==
    /\ outcome' = Append(outcome, [what |-> what, at |-> row])
    /\ pc' = "Crashed"

\* create_table, line 92: conn = psycopg2.connect(**db_credentials)
CtConnect ==
    /\ pc = "create_table"
    /\ \/ /\ conns' = conns + 1
          /\ txn' = [open |-> TRUE, view |-> table]
          /\ pc' = "ct_execute"
          /\ UNCHANGED schema
       \/ /\ schema' = "failed"        \* except: print; finally: conn is None
          /\ pc' = "enumerate"
          /\ UNCHANGED <<conns, txn>>
    /\ UNCHANGED <<all_zip_codes, chunk_size, zip_code_chunks, batch_id, json_data,
                   data_df, row, table, outcome, response, requests, expected>>

\* create_table, line 125: cur.execute(DROP TABLE IF EXISTS ...; CREATE TABLE ...)
CtExecute ==
    /\ pc = "ct_execute"
    /\ \/ /\ txn' = [txn EXCEPT !.view = FreshTable]
          /\ pc' = "ct_commit"
          /\ UNCHANGED <<schema, conns, table>>
       \/ /\ schema' = "failed"        \* except: print; finally: conn.close()
          /\ \E view \in {txn.view, NoTable} :     \* the DROP may have run
                table' = Closed(table, view)
          /\ txn' = NoTxn
          /\ conns' = Released(conns)
          /\ pc' = "enumerate"
    /\ UNCHANGED <<all_zip_codes, chunk_size, zip_code_chunks, batch_id, json_data,
                   data_df, row, outcome, response, requests, expected>>

\* create_table, lines 126-132: conn.commit(), then finally: conn.close()
CtCommit ==
    /\ pc = "ct_commit"
    /\ \/ /\ table' = Committed(table, txn.view)
          /\ schema' = "ready"
       \/ /\ table' = Closed(table, txn.view)
          /\ schema' = "failed"
    /\ txn' = NoTxn
    /\ conns' = Released(conns)
    /\ pc' = "enumerate"
    /\ UNCHANGED <<all_zip_codes, chunk_size, zip_code_chunks, batch_id, json_data,
                   data_df, row, outcome, response, requests, expected>>

\* lines 181-190: the enumeration and its partition into chunks
Enumerate ==
    /\ pc = "enumerate"
    /\ zip_code_chunks' = ZipCodeChunks(all_zip_codes, chunk_size)
    /\ batch_id' = 0
    /\ pc' = "loop"
    /\ UNCHANGED <<all_zip_codes, chunk_size, json_data, data_df, row, table, txn,
                   conns, schema, outcome, response, requests, expected>>

\* line 192: for batch_id in range(len(zip_code_chunks))
Loop ==
    /\ pc = "loop"
    /\ \/ /\ batch_id < Len(zip_code_chunks)
          /\ pc' = "api_to_df"
       \/ /\ batch_id >= Len(zip_code_chunks)
          /\ pc' = "Done"
    /\ UNCHANGED <<all_zip_codes, chunk_size, zip_code_chunks, batch_id, json_data,
                   data_df, row, table, txn, conns, schema, outcome, response,
                   requests, expected>>

\* lines 193-195: api_to_df on the batch's chunk, and the test of its result
Fetch ==
    /\ pc = "api_to_df"
    /\ \E body \in Bodies(zip_code_chunks[batch_id + 1]) :
         LET res == ApiToDf(body, batch_id) IN
         /\ response' = Summary(body)
         /\ requests' = Append(requests, batch_id)
         /\ \/ /\ res.raised
               /\ Crash(res.what)
               /\ expected' = IF res.what = "project_error"
                              THEN expected \cup Owed(body.recs, batch_id)
                              ELSE expected
               /\ UNCHANGED <<batch_id, json_data, data_df, row>>
            \/ /\ ~res.raised
               /\ Empty(res.df)
               /\ NextBatch("empty")
               /\ UNCHANGED expected
            \/ /\ ~res.raised
               /\ ~Empty(res.df)
               /\ json_data' = body.recs
               /\ data_df' = res.df
               /\ pc' = "insert_connect"
               /\ UNCHANGED <<batch_id, row, outcome, expected>>
    /\ UNCHANGED <<all_zip_codes, chunk_size, zip_code_chunks, table, txn, conns,
                   schema>>

\* insert_data_to_postgres, lines 163-167, after a failure with `rowsDone` passes
\* of the row loop begun: the handler prints {row}; with `row` unbound that
\* raises, and the exception leaves insert_data_to_postgres and the batch loop.
LoadError(what, rowsDone) ==
    IF HandlerRaises(rowsDone)
    THEN /\ Crash(what)
         /\ UNCHANGED <<batch_id, json_data, data_df, row>>
    ELSE NextBatch(what)

\* insert_data_to_postgres, lines 144-147: the connection
InsertConnect ==
    /\ pc = "insert_connect"
    /\ \/ /\ conns' = conns + 1
          /\ txn' = [open |-> TRUE, view |-> table]
          /\ pc' = "insert_rows"
          /\ UNCHANGED <<batch_id, json_data, data_df, row, outcome>>
       \/ /\ LoadError("connect_error", row)      \* finally: conn is None
          /\ UNCHANGED <<conns, txn>>
    /\ UNCHANGED <<all_zip_codes, chunk_size, zip_code_chunks, table, schema,
                   response, requests, expected>>

\* insert_data_to_postgres, lines 155-160 and 163-167: one pass of the row loop.
\* The destination rejects a row it does not accept, and may reject any row.
InsertRow ==
    /\ pc = "insert_rows"
    /\ row < Len(data_df.rows)
    /\ LET r == data_df.rows[row + 1] IN
       \/ /\ Accepts(txn.view, r)
          /\ txn' = [txn EXCEPT !.view = Inserted(txn.view, r)]
          /\ row' = row + 1
          /\ UNCHANGED <<pc, batch_id, json_data, data_df, table, conns, outcome>>
       \/ /\ LoadError("row_error", row + 1)      \* finally: conn.close()
          /\ table' = Closed(table, txn.view)
          /\ txn' = NoTxn
          /\ conns' = Released(conns)
    /\ UNCHANGED <<all_zip_codes, chunk_size, zip_code_chunks, schema, response,
                   requests, expected>>

\* insert_data_to_postgres, lines 162-167: conn.commit(), then conn.close()
InsertCommit ==
    /\ pc = "insert_rows"
    /\ row = Len(data_df.rows)
    /\ \/ /\ table' = Committed(table, txn.view)
          /\ expected' = expected \cup Owed(json_data, batch_id)
          /\ NextBatch("loaded")
       \/ /\ LoadError("commit_error", row)
          /\ table' = Closed(table, txn.view)
          /\ UNCHANGED expected
    /\ txn' = NoTxn
    /\ conns' = Released(conns)
    /\ UNCHANGED <<all_zip_codes, chunk_size, zip_code_chunks, schema, response,
                   requests>>

Next ==
    \/ CtConnect
    \/ CtExecute
    \/ CtCommit
    \/ Enumerate
    \/ Loop
    \/ Fetch
    \/ InsertConnect
    \/ InsertRow
    \/ InsertCommit

Spec == Init /\ [][Next]_vars

------------------------------------------------------------------------------
(* The batcher alone, on any key sequence and chunk size *)

BatcherKeys == {1, 2}

InitBatcher ==
    /\ pc = "batcher"
    /\ all_zip_codes \in SeqsUpTo(BatcherKeys, MaxLen)
    /\ chunk_size \in 1..MaxChunk
    /\ zip_code_chunks = <<>>
    /\ batch_id = 0
    /\ json_data = <<>>
    /\ data_df = EmptyFrame
    /\ row = 0
    /\ table = NoTable
    /\ txn = NoTxn
    /\ conns = 0
    /\ schema = "pending"
    /\ outcome = <<>>
    /\ response = NoResponse
    /\ requests = <<>>
    /\ expected = {}

\* lines 187-190 on the drawn keys and chunk size
Batch ==
    /\ pc = "batcher"
    /\ zip_code_chunks' = ZipCodeChunks(all_zip_codes, chunk_size)
    /\ pc' = "batched"
    /\ UNCHANGED <<all_zip_codes, chunk_size, batch_id, json_data, data_df, row,
                   table, txn, conns, schema, outcome, response, requests, expected>>

NextBatcher == Batch

BatcherSpec == InitBatcher /\ [][NextBatcher]_vars

------------------------------------------------------------------------------
(* Properties *)

NumBatches == Len(zip_code_chunks)

Ended == pc \in {"Done", "Crashed"}

\* Batch b was begun and ended as `what`.
EndedAs(b, what) == b < Len(outcome) /\ outcome[b + 1].what = what

\* The rows of the table that this run's batch b inserted.
RowsOf(b) == {t \in table.rows : ~t.prior /\ t.batch_id = b}

RowKey(t) == [id |-> t.id, zip |-> t.zip, batch_id |-> t.batch_id]

Ceil(a, b) == (a + b - 1) \div b

\* C1: a batch is loaded all or nothing. In every state, the table holds every
\* record of a batch whose load committed, and no record of any other batch: of
\* one being loaded, of one whose load failed at any row, of one never loaded.
C1_AllOrNothing ==
    \A b \in 0..(NumBatches - 1) :
        IF EndedAs(b, "loaded")
        THEN /\ RowsOf(b) # {}
             /\ {RowKey(t) : t \in RowsOf(b)} = {e \in expected : e.batch_id = b}
        ELSE RowsOf(b) = {}

\* A load failed at a row after at least one row of the batch had been inserted.
C1_Witness ==
    \E b \in 0..(NumBatches - 1) :
        /\ EndedAs(b, "row_error")
        /\ outcome[b + 1].at >= 1
        /\ RowsOf(b) = {}

\* C2: a fetch failure is isolated to its batch. When, the schema prepared, the
\* fetch of batch b failed, b has no row in the table and, once the run has
\* ended, every batch id of 0..N-1 has been fetched.
C2_FetchFailureIsolated ==
    \A b \in 0..(NumBatches - 1) :
        (schema = "ready" /\ EndedAs(b, "fetch_error")) =>
            /\ RowsOf(b) = {}
            /\ Ended => Len(outcome) = NumBatches

\* C3: a failed create_table is fatal. After it no batch is fetched or loaded.
C3_SchemaFailureFatal ==
    schema = "failed" =>
        /\ pc \notin {"api_to_df", "insert_connect", "insert_rows"}
        /\ outcome = <<>>

\* C4: a row-level load failure of batch b does not halt the run. When, the
\* schema prepared, the load of b failed at a row, then once the run has ended
\* every batch after b has been fetched.
C4_LoadFailureIsolated ==
    \A b \in 0..(NumBatches - 1) :
        (schema = "ready" /\ EndedAs(b, "row_error")) =>
            (Ended => Len(outcome) = NumBatches)

\* C5: a loader that cannot open its connection for batch b commits nothing of b
\* and lets no error out of insert_data_to_postgres: the run goes on. Stated for
\* the runs that prepared the schema.
C5_ConnectFailureHandled ==
    \A b \in 0..(NumBatches - 1) :
        (schema = "ready" /\ EndedAs(b, "connect_error")) =>
            (RowsOf(b) = {} /\ pc # "Crashed")

\* C6: once the schema is prepared, the run ends in no terminal state but Done,
\* whatever the outcomes of its batches.
C6_OnlyDone ==
    schema = "ready" => pc # "Crashed"

\* C7: when a run that prepared the schema ends, the table holds exactly the
\* records the source returned for the batches whose fetch gave a non-empty
\* result and whose load did not fail, each with its batch id.
C7_EndToEnd ==
    (Ended /\ schema = "ready") => {RowKey(t) : t \in table.rows} = expected

\* C8: the table is dropped and recreated before the first batch, so that
\* whenever a batch is loaded the table holds no row from before the run.
C8_NoPriorRows ==
    pc \in {"insert_connect", "insert_rows"} => \A t \in table.rows : ~t.prior

\* C9: every row this run stored carries the id of the batch (the 0-based
\* position of the chunk in the partition) whose request returned its record.
C9_BatchIdTraces ==
    \A t \in table.rows :
        ~t.prior =>
            /\ t.batch_id \in 0..(NumBatches - 1)
            /\ t.zip \in Range(zip_code_chunks[t.batch_id + 1])

\* The table holds rows of two batches of this run.
C9_Witness ==
    \E t, u \in table.rows :
        ~t.prior /\ ~u.prior /\ t.batch_id = 0 /\ u.batch_id >= 1

\* C10: the batcher yields an order-preserving exact partition. For L keys and
\* chunk size C there are ceil(L/C) chunks at positions 0..ceil(L/C)-1, each of C
\* keys but the last, which has 1 to C; their concatenation is the input; no
\* keys give no chunks.
C10_ExactPartition ==
    pc = "batched" =>
        LET L == Len(all_zip_codes)
            n == Len(zip_code_chunks)
        IN /\ n = Ceil(L, chunk_size)
           /\ DOMAIN zip_code_chunks = 1..Ceil(L, chunk_size)
           /\ \A k \in 1..(n - 1) : Len(zip_code_chunks[k]) = chunk_size
           /\ n > 0 => Len(zip_code_chunks[n]) \in 1..chunk_size
           /\ Concat(zip_code_chunks) = all_zip_codes
           /\ L = 0 => zip_code_chunks = <<>>

\* A partition of several chunks whose last chunk is short.
C10_Witness ==
    /\ pc = "batched"
    /\ Len(zip_code_chunks) >= 2
    /\ Len(zip_code_chunks[Len(zip_code_chunks)]) < chunk_size

\* C11: the primary key of a stored row is generated by the table and the
\* source's id is written to no column, so the key of a row about to be
\* inserted is never taken: records with the same source id do not conflict.
C11_NoKeyConflict ==
    (schema = "ready" /\ pc = "insert_rows" /\ row < Len(data_df.rows)) =>
        Accepts(txn.view, data_df.rows[row + 1])

\* The batch whose response is the last one ended in an exception of kind `what`.
CrashedAs(what) == pc = "Crashed" /\ outcome[Len(outcome)].what = what

Loading == pc \in {"insert_connect", "insert_rows"}

\* C12: projection fills absent fields with NULL. When, the schema prepared, the
\* response is an array
\* of objects of which one, several or all lack latitude, projection raises no
\* error, and the frame handed to the loader has NULL (NaN) for latitude in the
\* rows of those records and every other field as in the record.
C12_AbsentFilled ==
    (schema = "ready" /\ response.kind = "array" /\ response.bad = 0
       /\ response.lacking > 0) =>
        /\ ~CrashedAs("project_error")
        /\ Loading =>
             \A i \in 1..Len(json_data) :
                /\ data_df.rows[i].id = json_data[i].id
                /\ data_df.rows[i].zip = json_data[i].zip
                /\ data_df.rows[i].latitude =
                      IF json_data[i].latitude = Absent THEN NaN
                      ELSE json_data[i].latitude

\* C13: an empty result skips loading. The step that fetches a batch and gets
\* an empty array opens no connection, leaves the table as it is, and goes on
\* to the next batch.
C13_EmptySkipsLoad ==
    [][(pc = "api_to_df" /\ requests' # requests
          /\ response'.kind = "array" /\ response'.n = 0) =>
       (/\ pc' = "loop"
        /\ batch_id' = batch_id + 1
        /\ outcome' = Append(outcome, [what |-> "empty", at |-> 0])
        /\ table' = table
        /\ txn' = txn
        /\ conns' = conns
        /\ conns = 0)]_vars

\* A batch came back empty and the batch after it was fetched.
C13_Witness ==
    \E b \in 0..(NumBatches - 1) :
        EndedAs(b, "empty") /\ Len(requests) > b + 1

\* C14: a JSON body without the endpoint array is an empty result, not an
\* error: the run (its schema prepared) goes on.
C14_NoEndpointIsEmpty ==
    (schema = "ready" /\ response.kind = "no_endpoint") => pc # "Crashed"

\* C15: an element of the array that is no object is skipped, and the run (its
\* schema prepared) goes on with the well-formed records of the batch.
C15_MalformedSkipped ==
    (schema = "ready" /\ response.kind = "array" /\ response.bad > 0
       /\ response.n > response.bad) => ~CrashedAs("record_error")

\* C16: batches are processed one after the other in increasing id order, none
\* twice. The requests sent are those of batches 0, 1, 2, ... in this order; a
\* request is sent only when every batch requested before has ended and no
\* connection is open; a load is under way only for the batch of the last
\* request, which returned a non-empty array.
C16_Sequential ==
    /\ Len(requests) <= NumBatches
    /\ \A i \in 1..Len(requests) : requests[i] = i - 1
    /\ pc = "api_to_df" => (Len(outcome) = Len(requests) /\ conns = 0)
    /\ Loading =>
         /\ requests # <<>>
         /\ requests[Len(requests)] = batch_id
         /\ Len(outcome) = batch_id
         /\ response.kind = "array"
         /\ response.n > 0

\* The third batch is being loaded.
C16_Witness ==
    pc = "insert_rows" /\ Len(requests) = 3 /\ batch_id = 2

\* C17: database connections never overlap. At most one is open, exactly while
\* create_table or insert_data_to_postgres is past its connect; none is open
\* when a batch is fetched, between batches, or when the run has ended.
C17_OneConnection ==
    /\ conns \in {0, 1}
    /\ conns = 1 <=> txn.open
    /\ conns = 1 <=> pc \in {"ct_execute", "ct_commit", "insert_rows"}

\* A batch is being fetched after a load failed at a row and another committed.
C17_Witness ==
    /\ pc = "api_to_df"
    /\ conns = 0
    /\ \E a, b \in 0..(NumBatches - 1) : EndedAs(a, "row_error") /\ EndedAs(b, "loaded")

\* C18: create_table is atomic. A step of create_table either completes it,
\* and the table is then the empty new table, or leaves the table, its rows
\* included, exactly as it was: no state has the old table dropped and no new one.
C18_CreateTableAtomic ==
    [][(pc \in {"create_table", "ct_execute", "ct_commit"}) =>
          (IF schema' = "ready" THEN table' = FreshTable ELSE table' = table)]_vars

\* create_table failed and the row of the earlier run is still in the table.
C18_Witness ==
    schema = "failed" /\ pc = "enumerate" /\ table.exists /\ OldRow \in table.rows

====
